---- MODULE Spec2Model ----
(***************************************************************************)
(* CODEOWNERS resolution engine and ownership cache of CodeInputCorp/cli.  *)
(*                                                                         *)
(* Eight specifications share this module:                                 *)
(*   SpecResolve  the resolvers applied to a file path and an entry list   *)
(*   SpecStore    build_cache, store_cache and load_cache on one path      *)
(*   SpecSync     sync_cache calls on a repository whose cache file and    *)
(*                work tree change between the calls                       *)
(*   SpecWrite    store_cache statement by statement, with crashes         *)
(*   SpecLoad     load_cache on any file under any file-system behaviour   *)
(*   SpecBuild    the parallel build_cache, worker by worker               *)
(*   SpecParse    parse_owner on a token, parse_codeowners on a file       *)
(*   SpecRepeat   sync_cache called again and again, nothing else acting   *)
(***************************************************************************)
EXTENDS Integers, Sequences, FiniteSets, TLC

VARIABLES
    file_path,   \* resolver input: the path being resolved
    entries,     \* resolver input: the list of CodeownersEntry
    called,      \* which resolver function ran ("" before any call)
    result       \* what it returned: [ok, owners, tags]

rvars == <<file_path, entries, called, result>>

VARIABLES
    cache,       \* store: the cache build_cache returned, or NoCache
    encoding,    \* store: the CacheEncoding handed to store_cache
    disk,        \* the cache file at repo_root/cache_path, or NoFile
    loaded,      \* store: what load_cache returned, or NoCache
    stage        \* store: "input", "built", "stored", "loaded"

svars == <<cache, encoding, disk, loaded, stage>>

VARIABLES
    tree,         \* sync: the work tree (an index into Trees)
    cacheVisible, \* sync: the directory walker lists the cache file
    cacheInDiff,  \* sync: the cache file's content enters the repository hash
    last,         \* sync: the outcome of the latest sync_cache call
    prev,         \* sync: status and cache hash of the call before it, when
                  \*       nothing else touched the repository in between
    touched       \* sync: something other than sync_cache acted since `last`

yvars == <<tree, cacheVisible, cacheInDiff, last, prev, touched>>

VARIABLES
    pc,          \* write: the statement of store_cache reached
    old,         \* write: the file at the cache path when store_cache was called
    pending      \* write: the bytes store_cache is writing

wvars == <<pc, old, pending>>

VARIABLES
    tried,       \* load: the decoders load_cache ran, in order
    io           \* load: how the file system behaved during the call

lvars == <<tried, io>>

VARIABLES
    files,           \* build: the file list handed to the parallel build_cache
    chunkOut,        \* build: the FileEntry records each chunk's worker has made
    processed_count, \* build: the shared counter of files taken up
    printed          \* build: the progress lines [current, path], by their fetch_add

bvars == <<files, chunkOut, processed_count, printed>>

VARIABLES
    source,      \* parse: the text handed to the parser
    parsed       \* parse: what the parser returned

pvars == <<source, parsed>>

xvars == <<wvars, lvars, bvars, pvars>>

vars == <<rvars, svars, yvars, xvars>>

----------------------------------------------------------------------------
(* Paths.  A path is the sequence of its components; "/" is the empty      *)
(* sequence, the one path without a parent.                                *)

Root == <<>>

\* Path::parent: None for "/", else the path without its last component.
HasParent(p) == Len(p) > 0

Parent(p) == SubSeq(p, 1, Len(p) - 1)

\* Path::starts_with: whole components of base are a prefix of p.
StartsWith(p, base) ==
    /\ Len(base) <= Len(p)
    /\ SubSeq(p, 1, Len(base)) = base

\* Path::strip_prefix(base), defined when StartsWith(p, base).
StripPrefix(p, base) == SubSeq(p, Len(base) + 1, Len(p))

\* Byte order of the path components in use (uppercase sorts before lowercase).
CompRank(c) ==
    CASE c = "CODEOWNERS" -> 1
      [] c = "OWNERS"     -> 2
      [] c = "a"          -> 3
      [] c = "m.rs"       -> 4
      [] c = "o"          -> 5
      [] c = "p"          -> 6
      [] c = "r.md"       -> 7
      [] c = "s"          -> 8
      [] OTHER            -> 9

\* PathBuf's Ord: component-wise lexicographic, a proper prefix sorts first.
\* -1, 0, 1 stand for Less, Equal, Greater.
RECURSIVE PathCmp(_, _)
PathCmp(p, q) ==
    IF Len(p) = 0 /\ Len(q) = 0 THEN 0
    ELSE IF Len(p) = 0 THEN -1
    ELSE IF Len(q) = 0 THEN 1
    ELSE IF CompRank(Head(p)) < CompRank(Head(q)) THEN -1
    ELSE IF CompRank(Head(p)) > CompRank(Head(q)) THEN 1
    ELSE PathCmp(Tail(p), Tail(q))

\* usize::cmp
NumCmp(a, b) == IF a < b THEN -1 ELSE IF a > b THEN 1 ELSE 0

\* Ordering::then_with
ThenWith(c, d) == IF c # 0 THEN c ELSE d

----------------------------------------------------------------------------
(* Glob patterns.  The matcher is the `ignore` crate's Override, anchored  *)
(* at the CODEOWNERS directory, with gitignore semantics: a pattern        *)
(* without '/' matches the file name at any depth below the anchor.        *)

\* The extension of a file name.
Ext(name) ==
    CASE name = "m.rs" -> "rs"
      [] name = "r.md" -> "md"
      [] OTHER         -> ""

\* OverrideBuilder::add fails on an unparseable glob.
PatternCompiles(pattern) == pattern # "[invalid"

\* Override::matched(file_path, false).is_whitelist() for a compiled pattern.
GlobMatches(pattern, codeowners_dir, path) ==
    LET rel == IF StartsWith(path, codeowners_dir)
               THEN StripPrefix(path, codeowners_dir)
               ELSE path
    IN  CASE pattern = "*"      -> TRUE
          [] pattern = "*.rs"   -> Len(rel) > 0 /\ Ext(rel[Len(rel)]) = "rs"
          [] OTHER              -> FALSE

----------------------------------------------------------------------------
(* Resolver inputs.                                                        *)

MaxEntries == 2

OwnerIds == <<"@o1", "@o2", "@o3", "@o4">>

TagIds == <<"t1", "t2", "t3", "t4">>

Dirs == {<<"p">>, <<"p", "s">>, <<"o">>}

\* A CODEOWNERS file in each directory, a second owners file in one of
\* them, and one source path without a parent.
SourceFiles == {d \o <<"CODEOWNERS">> : d \in Dirs} \cup {<<"p", "OWNERS">>, Root}

LineNumbers == {1, 10}

Patterns == {"*", "*.rs", "[invalid"}

FilePaths ==
    {<<"p", "m.rs">>, <<"p", "s", "m.rs">>, <<"p", "s", "a", "m.rs">>,
     <<"p", "s", "r.md">>, Root}

Rules == [source_file : SourceFiles, line_number : LineNumbers, pattern : Patterns]

RuleLists == UNION {[1..n -> Rules] : n \in 0..MaxEntries}

\* The i-th entry of a list has an owner and a tag of its own, so that a
\* result names the entry it was copied from, followed by an owner and a tag
\* every entry has.
MkOwner(id) == [identifier |-> id, owner_type |-> "Team"]

MkEntries(rs) ==
    [i \in 1..Len(rs) |->
        [source_file |-> rs[i].source_file,
         line_number |-> rs[i].line_number,
         pattern     |-> rs[i].pattern,
         owners      |-> <<MkOwner(OwnerIds[i]), MkOwner("@all")>>,
         tags        |-> <<TagIds[i], "all">>]]

----------------------------------------------------------------------------
(* The resolvers.                                                          *)

\* Mutant of IsCandidate: the ancestor check is missing.
IsCandidateAnyDir(path, e) ==
    /\ HasParent(e.source_file)
    /\ PatternCompiles(e.pattern)
    /\ GlobMatches(e.pattern, Parent(e.source_file), path)

\* The filter_map closure: does entry e become a candidate for path?
IsCandidate(path, e) ==
    /\ HasParent(e.source_file)
    /\ StartsWith(Parent(path), Parent(e.source_file))
    /\ PatternCompiles(e.pattern)
    /\ GlobMatches(e.pattern, Parent(e.source_file), path)

\* rel_path.components().count()
Depth(path, e) == Len(StripPrefix(Parent(path), Parent(e.source_file)))

CandidateIdx(path, es) == {i \in 1..Len(es) : IsCandidate(path, es[i])}

\* Mutant of SortCmp: depth compared the other way round.
SortCmpDepthDesc(path, a, b) ==
    ThenWith(NumCmp(Depth(path, b), Depth(path, a)),
        ThenWith(PathCmp(a.source_file, b.source_file),
                 NumCmp(b.line_number, a.line_number)))

\* Mutant of SortCmp: line numbers compared ascending.
SortCmpLineAsc(path, a, b) ==
    ThenWith(NumCmp(Depth(path, a), Depth(path, b)),
        ThenWith(PathCmp(a.source_file, b.source_file),
                 NumCmp(a.line_number, b.line_number)))

\* The comparator of resolver.rs, owner_resolver.rs and tag_resolver.rs:
\* depth ascending, then source file, then line number descending.
SortCmp(path, a, b) ==
    ThenWith(NumCmp(Depth(path, a), Depth(path, b)),
        ThenWith(PathCmp(a.source_file, b.source_file),
                 NumCmp(b.line_number, a.line_number)))

\* The comparator of core/common.rs: depth descending, then line number
\* descending, then source file.
CommonSortCmp(path, a, b) ==
    ThenWith(NumCmp(Depth(path, b), Depth(path, a)),
        ThenWith(NumCmp(b.line_number, a.line_number),
                 PathCmp(a.source_file, b.source_file)))

\* Mutant of FirstUnstable: the candidates are not sorted, the first of the
\* list is taken.
FirstUnsorted(path, es) ==
    LET C == CandidateIdx(path, es)
    IN  {i \in C : \A j \in C : i <= j}

\* sort_unstable_by(...).first(): any candidate no other candidate precedes.
FirstUnstable(path, es) ==
    LET C == CandidateIdx(path, es)
    IN  {i \in C : \A j \in C : SortCmp(path, es[i], es[j]) <= 0}

\* sort_by(...).first() with the comparator of common.rs: the sort is stable,
\* so of the equal minimal candidates the first of the input wins.
FirstStableCommon(path, es) ==
    LET C == CandidateIdx(path, es)
        M == {i \in C : \A j \in C : CommonSortCmp(path, es[i], es[j]) <= 0}
    IN  {i \in M : \A j \in M : i <= j}

OkResult(owners, tags) == [ok |-> TRUE, owners |-> owners, tags |-> tags]

ErrResult == [ok |-> FALSE, owners |-> <<>>, tags |-> <<>>]

\* Mutant of FindOwnersAndTagsForFile: the tags are taken from any candidate.
FindOwnersAndTagsAnyTags(path, es) ==
    IF es = <<>> THEN {OkResult(<<>>, <<>>)}
    ELSE IF ~HasParent(path) THEN {ErrResult}
    ELSE IF CandidateIdx(path, es) = {} THEN {OkResult(<<>>, <<>>)}
    ELSE {OkResult(es[w].owners, es[v].tags) :
             w \in FirstUnstable(path, es), v \in CandidateIdx(path, es)}

\* The values find_owners_and_tags_for_file can return.
FindOwnersAndTagsForFile(path, es) ==
    IF es = <<>> THEN {OkResult(<<>>, <<>>)}
    ELSE IF ~HasParent(path) THEN {ErrResult}
    ELSE IF CandidateIdx(path, es) = {} THEN {OkResult(<<>>, <<>>)}
    ELSE {OkResult(es[w].owners, es[w].tags) : w \in FirstUnstable(path, es)}

\* owner_resolver.rs
FindOwnersForFile(path, es) ==
    IF ~HasParent(path) THEN {ErrResult}
    ELSE IF CandidateIdx(path, es) = {} THEN {OkResult(<<>>, <<>>)}
    ELSE {OkResult(es[w].owners, <<>>) : w \in FirstUnstable(path, es)}

\* tag_resolver.rs
FindTagsForFile(path, es) ==
    IF ~HasParent(path) THEN {ErrResult}
    ELSE IF CandidateIdx(path, es) = {} THEN {OkResult(<<>>, <<>>)}
    ELSE {OkResult(<<>>, es[w].tags) : w \in FirstUnstable(path, es)}

\* core/common.rs
CommonFindOwnersForFile(path, es) ==
    IF ~HasParent(path) THEN {ErrResult}
    ELSE IF CandidateIdx(path, es) = {} THEN {OkResult(<<>>, <<>>)}
    ELSE {OkResult(es[w].owners, <<>>) : w \in FirstStableCommon(path, es)}

\* core/common.rs
CommonFindTagsForFile(path, es) ==
    IF ~HasParent(path) THEN {ErrResult}
    ELSE IF CandidateIdx(path, es) = {} THEN {OkResult(<<>>, <<>>)}
    ELSE {OkResult(<<>>, es[w].tags) : w \in FirstStableCommon(path, es)}

----------------------------------------------------------------------------
(* The cache and its two encodings.                                        *)

HashLen == 32

\* The byte of '{', the first byte of every JSON document serde_json writes.
JsonOpen == 123

\* A 32-byte digest with first byte b and every other byte t.
MkHash(b, t) == [i \in 1..HashLen |-> IF i = 1 THEN b ELSE t]

Range(f) == {f[x] : x \in DOMAIN f}

\* collect_owners: the set of owners of all entries.
CollectOwners(es) == UNION {Range(es[i].owners) : i \in 1..Len(es)}

\* collect_tags: the set of tags of all entries.
CollectTags(es) == UNION {Range(es[i].tags) : i \in 1..Len(es)}

NoCache == [ok |-> FALSE]

\* Mutant of PathsWhere: the contains() test is missing.
PathsWhereAll(fs, field, x) ==
    [i \in 1..Len(fs) |-> fs[i].path]

\* The paths of the file entries whose field (owners or tags) contains x,
\* in file order.
PathsWhere(fs, field, x) ==
    LET Has(f) == x \in Range(f[field])
        kept   == SelectSeq(fs, Has)
    IN  [i \in 1..Len(kept) |-> kept[i].path]

\* The FileEntry build_cache of core/cache.rs pushes for one path.  The
\* resolvers of common.rs sort stably, so their result is a single value.
FileEntryOf(path, es) ==
    [path   |-> path,
     owners |-> (CHOOSE r \in CommonFindOwnersForFile(path, es) : TRUE).owners,
     tags   |-> (CHOOSE r \in CommonFindTagsForFile(path, es) : TRUE).tags]

\* build_cache of core/cache.rs: a resolver error on any file is returned
\* with `?`; otherwise one FileEntry per file and one map key per owner and
\* tag of the entries.
BuildCache(es, fs, h) ==
    IF \E i \in 1..Len(fs) : ~HasParent(fs[i]) THEN NoCache
    ELSE LET fe == [i \in 1..Len(fs) |-> FileEntryOf(fs[i], es)]
         IN  [ok         |-> TRUE,
              hash       |-> h,
              entries    |-> es,
              files      |-> fe,
              owners_map |-> [o \in CollectOwners(es) |->
                                 PathsWhere(fe, "owners", o)],
              tags_map   |-> [t \in CollectTags(es) |->
                                 PathsWhere(fe, "tags", t)]]

\* The orders in which HashMap::iter can yield the keys of a map.
KeyOrders(map) ==
    {s \in [1..Cardinality(DOMAIN map) -> DOMAIN map] :
        \A i, j \in DOMAIN s : i # j => s[i] # s[j]}

\* owners_map.iter().collect(): the (key, value) pairs in iteration order.
PairsOf(map, order) == [i \in DOMAIN order |-> <<order[i], map[order[i]]>>]

\* The Deserialize impl: insert every pair into a new HashMap, a later pair
\* replacing an earlier one with the same key.
MapOfPairs(pairs) ==
    [k \in {pairs[i][1] : i \in DOMAIN pairs} |->
        LET lastIdx == CHOOSE i \in DOMAIN pairs :
                           /\ pairs[i][1] = k
                           /\ \A j \in DOMAIN pairs : pairs[j][1] = k => j <= i
        IN  pairs[lastIdx][2]]

(* A file is its leading raw bytes (head), the grammar the rest of it       *)
(* follows (layout) and the values written in that grammar (body).  Bincode *)
(* writes the 32 hash bytes raw and first; JSON writes '{' first and the    *)
(* hash as the array of the "hash" member.                                  *)

NoFile == [layout |-> "none", head |-> <<>>, body |-> <<>>]

\* serde_json::to_writer_pretty(&mut writer, cache)
EncodeJson(c, oo, to) ==
    [layout |-> "json",
     head   |-> <<JsonOpen>>,
     body   |-> <<c.hash, c.entries, c.files,
                  PairsOf(c.owners_map, oo), PairsOf(c.tags_map, to)>>]

\* bincode::serde::encode_into_std_write(cache, &mut writer, standard())
EncodeBincode(c, oo, to) ==
    [layout |-> "bincode",
     head   |-> c.hash,
     body   |-> <<c.entries, c.files,
                  PairsOf(c.owners_map, oo), PairsOf(c.tags_map, to)>>]

\* The ways a JSON document can open: with '{', or with white space (a
\* blank here) before it, which serde_json skips.
JsonHeads == {<<JsonOpen>>, <<32, JsonOpen>>}

\* serde_json::from_reader(reader): the whole file is one document.
DecodeJson(f) ==
    IF f.layout = "json" /\ f.head \in JsonHeads /\ Len(f.body) = 5
    THEN [ok         |-> TRUE,
          hash       |-> f.body[1],
          entries    |-> f.body[2],
          files      |-> f.body[3],
          owners_map |-> MapOfPairs(f.body[4]),
          tags_map   |-> MapOfPairs(f.body[5])]
    ELSE NoCache

\* bincode::serde::decode_from_std_read(&mut reader, standard()): reads the
\* five fields and leaves whatever follows them unread.
DecodeBincode(f) ==
    IF f.layout = "bincode" /\ Len(f.head) = HashLen /\ Len(f.body) >= 4
    THEN [ok         |-> TRUE,
          hash       |-> f.head,
          entries    |-> f.body[1],
          files      |-> f.body[2],
          owners_map |-> MapOfPairs(f.body[3]),
          tags_map   |-> MapOfPairs(f.body[4])]
    ELSE NoCache

\* store_cache: the file it leaves at the path.
StoreCache(c, enc, oo, to) ==
    IF enc = "Bincode" THEN EncodeBincode(c, oo, to) ELSE EncodeJson(c, oo, to)

\* load_cache: open fails on a missing file; a first byte '{' selects the
\* JSON decoder alone; otherwise bincode is tried and JSON is the fallback.
LoadCache(f) ==
    IF f.layout = "none" THEN NoCache
    ELSE IF Len(f.head) >= 1 /\ f.head[1] = JsonOpen THEN DecodeJson(f)
    ELSE IF DecodeBincode(f).ok THEN DecodeBincode(f)
    ELSE DecodeJson(f)

----------------------------------------------------------------------------
(* SpecStore: build_cache, store_cache, load_cache on one cache path.      *)

\* No sync_cache call has been made.
NoCall ==
    [status |-> "none", path |-> "none", cache |-> NoCache, disk |-> NoFile,
     ops |-> <<>>, before |-> NoFile, tree |-> 1]

NoPrev == [status |-> "none", hash |-> <<>>]

WriteIdle ==
    /\ pc = "idle"
    /\ old = NoFile
    /\ pending = NoFile

LoadIdle ==
    /\ tried = <<>>
    /\ io = "ok"

BuildIdle ==
    /\ files = <<>>
    /\ chunkOut = <<>>
    /\ processed_count = 0
    /\ printed = <<>>

ParseIdle ==
    /\ source = [kind |-> "none"]
    /\ parsed = [ok |-> FALSE]

\* The specifications that take no step of their own leave these alone.
XIdle ==
    /\ WriteIdle
    /\ LoadIdle
    /\ BuildIdle
    /\ ParseIdle

SyncIdle ==
    /\ tree = 1
    /\ cacheVisible = FALSE
    /\ cacheInDiff = FALSE
    /\ last = NoCall
    /\ prev = NoPrev
    /\ touched = FALSE

StoreIdle ==
    /\ cache = NoCache
    /\ encoding = "Bincode"
    /\ disk = NoFile
    /\ loaded = NoCache
    /\ stage = "idle"

\* First bytes of the digests drawn: 0, the byte of '{', and 255.
FirstBytes == {0, JsonOpen, 255}

Hashes == {MkHash(b, t) : b \in FirstBytes, t \in {0, 17}}

\* Entry lists build_cache is given: none, one rule, rules of two
\* CODEOWNERS files sharing an owner, one of them without tags, and rules
\* of two CODEOWNERS files that own different files.
StoreEntryLists ==
    {<<>>,
     <<[source_file |-> <<"p", "CODEOWNERS">>, line_number |-> 1, pattern |-> "*.rs",
        owners |-> <<MkOwner("@o1")>>, tags |-> <<"t1">>],
       [source_file |-> <<"p", "s", "CODEOWNERS">>, line_number |-> 1, pattern |-> "*",
        owners |-> <<MkOwner("@o2")>>, tags |-> <<"t2">>]>>,
     <<[source_file |-> <<"p", "CODEOWNERS">>, line_number |-> 1, pattern |-> "*",
        owners |-> <<MkOwner("@o1")>>, tags |-> <<"t1">>]>>,
     <<[source_file |-> <<"p", "CODEOWNERS">>, line_number |-> 1, pattern |-> "*",
        owners |-> <<MkOwner("@o1"), MkOwner("@o2")>>, tags |-> <<"t1", "t2">>],
       [source_file |-> <<"p", "s", "CODEOWNERS">>, line_number |-> 10, pattern |-> "*.rs",
        owners |-> <<MkOwner("@o2")>>, tags |-> <<>>]>>}

StoreFileLists ==
    {<<>>,
     <<<<"p", "m.rs">>>>,
     <<<<"p", "m.rs">>, <<"p", "s", "m.rs">>, <<"p", "s", "r.md">>>>}

InitStore ==
    /\ file_path = Root
    /\ called = ""
    /\ result = OkResult(<<>>, <<>>)
    /\ entries \in StoreEntryLists
    /\ \E fs \in StoreFileLists, h \in Hashes :
          cache = [ok |-> FALSE, files |-> fs, hash |-> h]
    /\ encoding \in {"Bincode", "Json"}
    /\ disk = NoFile
    /\ loaded = NoCache
    /\ stage = "input"
    /\ SyncIdle
    /\ XIdle

DoBuildCache ==
    /\ stage = "input"
    /\ cache' = BuildCache(entries, cache.files, cache.hash)
    /\ stage' = "built"
    /\ UNCHANGED <<xvars, rvars, yvars, encoding, disk, loaded>>

DoStoreCache ==
    /\ stage = "built"
    /\ cache.ok
    /\ \E oo \in KeyOrders(cache.owners_map), to \in KeyOrders(cache.tags_map) :
          disk' = StoreCache(cache, encoding, oo, to)
    /\ stage' = "stored"
    /\ UNCHANGED <<xvars, rvars, yvars, cache, encoding, loaded>>

DoLoadCache ==
    /\ stage = "stored"
    /\ loaded' = LoadCache(disk)
    /\ stage' = "loaded"
    /\ UNCHANGED <<xvars, rvars, yvars, cache, encoding, disk>>

NextStore ==
    \/ DoBuildCache
    \/ DoStoreCache
    \/ DoLoadCache

SpecStore == InitStore /\ [][NextStore]_vars

----------------------------------------------------------------------------
(* The repository and sync_cache.                                          *)

\* The cache file's path below the repository root /p.
CachePath == <<"p", "cache.bin">>

\* How many digests the hash of one work tree runs through as the cache
\* file inside it is rewritten.
HashGenerations == 2

RootRule ==
    [source_file |-> <<"p", "CODEOWNERS">>, line_number |-> 1, pattern |-> "*",
     owners |-> <<MkOwner("@o1")>>, tags |-> <<"t1">>]

SrcRule ==
    [source_file |-> <<"p", "s", "CODEOWNERS">>, line_number |-> 1, pattern |-> "*.rs",
     owners |-> <<MkOwner("@o2")>>, tags |-> <<>>]

OtherRule ==
    [source_file |-> <<"p", "o", "CODEOWNERS">>, line_number |-> 1, pattern |-> "*",
     owners |-> <<MkOwner("@o3")>>, tags |-> <<"t3">>]

\* The work trees: the CODEOWNERS files find_codeowners_files yields, each
\* with the rules its text holds and whether read_to_string succeeds on it,
\* the files the walker finds, and the first byte of the digest git yields
\* for the tree.
Trees ==
    <<[codeowners |-> <<[readable |-> TRUE, rules |-> <<RootRule>>]>>,
       files      |-> <<<<"p", "m.rs">>, <<"p", "s", "m.rs">>>>,
       first      |-> 0],
      [codeowners |-> <<[readable |-> TRUE, rules |-> <<RootRule>>],
                        [readable |-> FALSE, rules |-> <<OtherRule>>],
                        [readable |-> TRUE, rules |-> <<SrcRule>>]>>,
       files      |-> <<<<"p", "m.rs">>, <<"p", "s", "m.rs">>, <<"p", "s", "r.md">>>>,
       first      |-> 255],
      [codeowners |-> <<>>,
       files      |-> <<<<"p", "m.rs">>>>,
       first      |-> JsonOpen]>>

RECURSIVE Flatten(_)
Flatten(ss) == IF ss = <<>> THEN <<>> ELSE Head(ss) \o Flatten(Tail(ss))

ParsedEntriesKeepAll(t) ==
    Flatten([k \in 1..Len(Trees[t].codeowners) |-> Trees[t].codeowners[k].rules])

\* parse_repo's filter_map over the CODEOWNERS files: a file whose
\* parse_codeowners fails yields None and is skipped, the entries of the
\* others are concatenated in the order the files were found.
ParsedEntries(t) ==
    LET IsOk(c) == c.readable
        ok == SelectSeq(Trees[t].codeowners, IsOk)
    IN  Flatten([k \in 1..Len(ok) |-> ok[k].rules])

\* find_files: the walker's files, the cache file among them when it exists
\* and is neither hidden nor ignored.
FindFiles(t, f) ==
    Trees[t].files \o
    (IF cacheVisible /\ f.layout # "none" THEN <<CachePath>> ELSE <<>>)

\* The second byte on of the hash a file stores (0 when it stores none).
StoredTail(f) ==
    IF LoadCache(f).ok THEN LoadCache(f).hash[2]
    ELSE IF DecodeBincode(f).ok THEN DecodeBincode(f).hash[2]
    ELSE 0

\* get_repo_hash: SHA-256 over HEAD, the index tree and the diff of the work
\* tree.  When the cache file is part of that diff the digest depends on the
\* file's content, and so differs from the hash stored inside the file.
GetRepoHash(t, f) ==
    IF cacheInDiff /\ f.layout # "none"
    THEN MkHash(Trees[t].first, (StoredTail(f) + 1) % HashGenerations)
    ELSE MkHash(Trees[t].first, 0)

ParseOps ==
    <<"find_codeowners_files", "parse_codeowners", "find_files",
      "get_repo_hash", "build_cache", "store_cache">>

\* Mutant of ParseRepo: the cache is returned without being stored.
ParseRepoNoStore(t, f, path) ==
    LET c == BuildCache(ParsedEntries(t), FindFiles(t, f), GetRepoHash(t, f))
    IN  {[status |-> "Ok", path |-> path, cache |-> c, disk |-> f,
          ops |-> <<"exists">> \o ParseOps]}

\* parse_repo: parse every CODEOWNERS file, list the files, hash the
\* repository, build the cache, store it as Bincode, return it.  One outcome
\* per iteration order of the two maps.
ParseRepo(t, f, path) ==
    LET c == BuildCache(ParsedEntries(t), FindFiles(t, f), GetRepoHash(t, f))
    IN  IF ~c.ok
        THEN {[status |-> "Err", path |-> path, cache |-> NoCache, disk |-> f,
               ops |-> <<"exists">> \o SubSeq(ParseOps, 1, 5)]}
        ELSE {[status |-> "Ok", path |-> path, cache |-> c,
               disk |-> StoreCache(c, "Bincode", oo, to),
               ops |-> <<"exists">> \o ParseOps] :
                 oo \in KeyOrders(c.owners_map), to \in KeyOrders(c.tags_map)}

\* Mutant of SyncCache: a fresh cache is stored again before it is returned.
SyncCacheRestore(t, f) ==
    IF f.layout = "none" THEN ParseRepo(t, f, "missing")
    ELSE IF ~LoadCache(f).ok
    THEN {[status |-> "Err", path |-> "load_failed", cache |-> NoCache, disk |-> f,
           ops |-> <<"exists", "load_cache">>]}
    ELSE IF LoadCache(f).hash # GetRepoHash(t, f)
    THEN {[o EXCEPT !.ops = <<"exists", "load_cache", "get_repo_hash">> \o ParseOps] :
             o \in ParseRepo(t, f, "stale")}
    ELSE {[status |-> "Ok", path |-> "fresh", cache |-> LoadCache(f),
           disk |-> StoreCache(LoadCache(f), "Json", oo, to),
           ops |-> <<"exists", "load_cache", "get_repo_hash", "store_cache">>] :
             oo \in KeyOrders(LoadCache(f).owners_map),
             to \in KeyOrders(LoadCache(f).tags_map)}

\* sync_cache: the outcomes of one call on work tree t with cache file f.
SyncCache(t, f) ==
    IF f.layout = "none" THEN ParseRepo(t, f, "missing")
    ELSE IF ~LoadCache(f).ok
    THEN {[status |-> "Err", path |-> "load_failed", cache |-> NoCache, disk |-> f,
           ops |-> <<"exists", "load_cache">>]}
    ELSE IF LoadCache(f).hash # GetRepoHash(t, f)
    THEN {[o EXCEPT !.ops = <<"exists", "load_cache", "get_repo_hash">> \o ParseOps] :
             o \in ParseRepo(t, f, "stale")}
    ELSE {[status |-> "Ok", path |-> "fresh", cache |-> LoadCache(f), disk |-> f,
           ops |-> <<"exists", "load_cache", "get_repo_hash">>]}

\* codeowners_parse: build and store with the encoding of the command line,
\* then load the file back as a test.
CodeownersParse(t, f, enc) ==
    LET c == BuildCache(ParsedEntries(t), FindFiles(t, f), GetRepoHash(t, f))
    IN  {StoreCache(c, enc, oo, to) :
            oo \in KeyOrders(c.owners_map), to \in KeyOrders(c.tags_map)}

----------------------------------------------------------------------------
(* SpecSync: sync_cache calls, with the work tree and the cache file       *)
(* changing between them.                                                  *)

\* Files that are no cache: empty, cut short, and text that opens like JSON.
DamagedFiles ==
    {[layout |-> "garbage", head |-> h, body |-> <<>>] :
        h \in {<<>>, <<0, 0>>, <<JsonOpen>>}}

InitSync ==
    /\ file_path = Root
    /\ entries = <<>>
    /\ called = ""
    /\ result = OkResult(<<>>, <<>>)
    /\ cache = NoCache
    /\ encoding = "Bincode"
    /\ loaded = NoCache
    /\ stage = "idle"
    /\ disk = NoFile
    /\ tree \in 1..Len(Trees)
    /\ cacheVisible \in BOOLEAN
    /\ cacheInDiff \in BOOLEAN
    /\ last = NoCall
    /\ prev = NoPrev
    /\ touched = FALSE
    /\ XIdle

\* One call of sync_cache on the repository as it is, from entry to return.
SyncCall ==
    /\ \E o \in SyncCache(tree, disk) :
          /\ last' = o @@ [before |-> disk, tree |-> tree]
          /\ disk' = o.disk
    /\ prev' = IF touched \/ last.status = "none" THEN NoPrev
               ELSE [status |-> last.status,
                     hash   |-> IF last.status = "Ok" THEN last.cache.hash ELSE <<>>]
    /\ touched' = FALSE
    /\ UNCHANGED <<xvars, rvars, cache, encoding, loaded, tree, cacheVisible, cacheInDiff>>

DoSyncCache == SyncCall /\ UNCHANGED stage

DoCodeownersParse ==
    /\ \E enc \in {"Bincode", "Json"} :
          disk' \in CodeownersParse(tree, disk, enc)
    /\ touched' = TRUE
    /\ UNCHANGED <<xvars, rvars, cache, encoding, loaded, stage, tree, cacheVisible, cacheInDiff,
                   last, prev>>

\* The user edits, stages or commits files: another work tree.
EditRepo ==
    /\ \E t \in 1..Len(Trees) : t # tree /\ tree' = t
    /\ touched' = TRUE
    /\ UNCHANGED <<xvars, rvars, svars, cacheVisible, cacheInDiff, last, prev>>

RemoveCacheFile ==
    /\ disk # NoFile
    /\ disk' = NoFile
    /\ touched' = TRUE
    /\ UNCHANGED <<xvars, rvars, cache, encoding, loaded, stage, tree, cacheVisible, cacheInDiff,
                   last, prev>>

DamageCacheFile ==
    /\ disk' \in DamagedFiles
    /\ touched' = TRUE
    /\ UNCHANGED <<xvars, rvars, cache, encoding, loaded, stage, tree, cacheVisible, cacheInDiff,
                   last, prev>>

NextSync ==
    \/ DoSyncCache
    \/ DoCodeownersParse
    \/ EditRepo
    \/ RemoveCacheFile
    \/ DamageCacheFile

SpecSync == InitSync /\ [][NextSync]_vars

----------------------------------------------------------------------------
(* SpecResolve: one resolver call on inputs drawn from the bounded sets.   *)

InitResolve ==
    /\ file_path \in FilePaths
    /\ entries \in {MkEntries(rs) : rs \in RuleLists}
    /\ called = ""
    /\ result = OkResult(<<>>, <<>>)
    /\ StoreIdle
    /\ SyncIdle
    /\ XIdle

CallFindOwnersAndTags ==
    /\ called = ""
    /\ called' = "find_owners_and_tags_for_file"
    /\ result' \in FindOwnersAndTagsForFile(file_path, entries)
    /\ UNCHANGED <<file_path, entries, svars, yvars, xvars>>

CallFindOwners ==
    /\ called = ""
    /\ called' = "find_owners_for_file"
    /\ result' \in FindOwnersForFile(file_path, entries)
    /\ UNCHANGED <<file_path, entries, svars, yvars, xvars>>

CallFindTags ==
    /\ called = ""
    /\ called' = "find_tags_for_file"
    /\ result' \in FindTagsForFile(file_path, entries)
    /\ UNCHANGED <<file_path, entries, svars, yvars, xvars>>

CallCommonFindOwners ==
    /\ called = ""
    /\ called' = "common::find_owners_for_file"
    /\ result' \in CommonFindOwnersForFile(file_path, entries)
    /\ UNCHANGED <<file_path, entries, svars, yvars, xvars>>

CallCommonFindTags ==
    /\ called = ""
    /\ called' = "common::find_tags_for_file"
    /\ result' \in CommonFindTagsForFile(file_path, entries)
    /\ UNCHANGED <<file_path, entries, svars, yvars, xvars>>

NextResolve ==
    \/ CallFindOwnersAndTags
    \/ CallFindOwners
    \/ CallFindTags
    \/ CallCommonFindOwners
    \/ CallCommonFindTags

SpecResolve == InitResolve /\ [][NextResolve]_vars

----------------------------------------------------------------------------
(* Claims about the resolvers.                                             *)

NearestFns ==
    {"find_owners_and_tags_for_file", "find_owners_for_file", "find_tags_for_file"}

CommonFns == {"common::find_owners_for_file", "common::find_tags_for_file"}

ReturnsOwners ==
    called \in {"find_owners_and_tags_for_file", "find_owners_for_file",
                "common::find_owners_for_file"}

ReturnsTags ==
    called \in {"find_owners_and_tags_for_file", "find_tags_for_file",
                "common::find_tags_for_file"}

\* The returned lists are those of entry e (each entry has its own owner and tag).
TakenFrom(e) ==
    /\ result.ok
    /\ ReturnsOwners => result.owners = e.owners
    /\ ReturnsTags => result.tags = e.tags

\* The entry's CODEOWNERS directory is the file's directory or an ancestor of it.
DirIsAncestor(i) ==
    /\ HasParent(entries[i].source_file)
    /\ StartsWith(Parent(file_path), Parent(entries[i].source_file))

\* Entry i matches the file from an ancestor-or-equal directory.
Matching(i) ==
    /\ DirIsAncestor(i)
    /\ PatternCompiles(entries[i].pattern)
    /\ GlobMatches(entries[i].pattern, Parent(entries[i].source_file), file_path)

MatchingIdx == {i \in 1..Len(entries) : Matching(i)}

\* Path components between the entry's directory and the file's parent.
Distance(i) == Len(Parent(file_path)) - Len(Parent(entries[i].source_file))

\* Some matching entry that no matching entry is nearer than is the one returned.
NearestReturned ==
    MatchingIdx # {} =>
        \E w \in MatchingIdx :
            /\ TakenFrom(entries[w])
            /\ \A j \in MatchingIdx : Distance(w) <= Distance(j)

\* C1: in resolver.rs, owner_resolver.rs and tag_resolver.rs, of the matching
\* entries the one whose CODEOWNERS directory is nearest to the file is
\* returned, whatever the line numbers are.
C1_NearestWins ==
    (called \in NearestFns /\ HasParent(file_path)) => NearestReturned

\* C1 witness: an entry of the file's own directory at line 1 beats a matching
\* entry of an ancestor directory at line 10.
C1_Witness ==
    /\ called \in NearestFns
    /\ HasParent(file_path)
    /\ \E i, j \in MatchingIdx :
        /\ Distance(i) = 0
        /\ Distance(j) > 0
        /\ entries[i].line_number < entries[j].line_number
        /\ TakenFrom(entries[i])

\* C2: in core/common.rs find_owners_for_file and find_tags_for_file return the
\* matching rule of the CODEOWNERS file closest to the target file (nested
\* overrides parent), for all line numbers.
C2_CommonNearestWins ==
    (called \in CommonFns /\ HasParent(file_path)) => NearestReturned

\* C3: of two matching entries of the same source file the one with the
\* smaller line number is never the one returned, and when all matching
\* entries come from one source file the one with the greatest line number is.
C3_LinePrecedence ==
    (called # "" /\ HasParent(file_path)) =>
        /\ \A i, j \in MatchingIdx :
              (/\ entries[i].source_file = entries[j].source_file
               /\ entries[i].line_number < entries[j].line_number)
              => ~TakenFrom(entries[i])
        /\ (/\ MatchingIdx # {}
            /\ \A i, j \in MatchingIdx :
                  entries[i].source_file = entries[j].source_file)
           => \E w \in MatchingIdx :
                /\ TakenFrom(entries[w])
                /\ \A j \in MatchingIdx :
                      entries[j].line_number <= entries[w].line_number

\* C3 witness: two matching entries of one source file, the later line listed
\* first, and the later line returned.
C3_Witness ==
    /\ called # ""
    /\ HasParent(file_path)
    /\ Len(entries) = 2
    /\ MatchingIdx = {1, 2}
    /\ entries[1].source_file = entries[2].source_file
    /\ entries[1].line_number > entries[2].line_number
    /\ TakenFrom(entries[1])

\* C4: for a file with a parent directory the resolver answers Ok; it answers
\* with empty lists when no entry of an ancestor-or-equal directory matches,
\* and an entry of a sibling or descendant directory is never the one returned.
C4_NoMatchIsEmpty ==
    (called # "" /\ HasParent(file_path)) =>
        /\ result.ok
        /\ MatchingIdx = {} => (result.owners = <<>> /\ result.tags = <<>>)
        /\ \A i \in 1..Len(entries) : ~DirIsAncestor(i) => ~TakenFrom(entries[i])

\* C4 witness: the only entries lie in a descendant or unrelated directory,
\* one of them with a pattern that matches the file name, and the answer is empty.
C4_Witness ==
    /\ called # ""
    /\ HasParent(file_path)
    /\ Len(entries) = 2
    /\ \A i \in 1..2 : HasParent(entries[i].source_file) /\ ~DirIsAncestor(i)
    /\ \E i \in 1..2 : entries[i].pattern = "*"
    /\ \E i \in 1..2 : StartsWith(Parent(entries[i].source_file), Parent(file_path))
    /\ result = OkResult(<<>>, <<>>)

----------------------------------------------------------------------------
(* Claims about the cache store.                                           *)

\* The loaded cache has the hash, entries, files and both maps of the built one.
SameCache(a, b) ==
    /\ a.ok /\ b.ok
    /\ a.hash = b.hash
    /\ a.entries = b.entries
    /\ a.files = b.files
    /\ a.owners_map = b.owners_map
    /\ a.tags_map = b.tags_map

\* C10: for every built cache and both encodings, store_cache followed by
\* load_cache on the same path succeeds and yields the hash, entries, files,
\* owners_map and tags_map of the original.
C10_RoundTrip == stage = "loaded" => SameCache(loaded, cache)

----------------------------------------------------------------------------
(* Claims about sync_cache.                                                *)

Synced == last.status # "none"

RebuildOps == {"find_codeowners_files", "parse_codeowners", "find_files",
               "build_cache", "store_cache"}

\* The file the call left behind is the Bincode encoding of the cache it returned.
PersistedReturned == SameCache(DecodeBincode(last.disk), last.cache)

\* C5: a cache file that exists but cannot be read or decoded is treated like
\* a missing one: sync_cache rebuilds, persists and returns a new cache and
\* never returns the load error.
C5_CorruptIsRebuilt ==
    (Synced /\ last.before # NoFile /\ ~LoadCache(last.before).ok) =>
        /\ last.status = "Ok"
        /\ RebuildOps \subseteq Range(last.ops)
        /\ PersistedReturned

\* C6: of two sync_cache calls in a row with nothing else touching the
\* repository in between, the second returns a cache with the hash of the
\* first and takes the fresh path (no rebuild).
C6_SyncIdempotent ==
    (Synced /\ prev.status = "Ok") =>
        /\ last.status = "Ok"
        /\ last.cache.hash = prev.hash
        /\ last.path = "fresh"
        /\ RebuildOps \cap Range(last.ops) = {}

\* The cache file exists, load_cache decodes it and its hash is the current one.
FreshBefore ==
    /\ last.before # NoFile
    /\ LoadCache(last.before).ok
    /\ LoadCache(last.before).hash = GetRepoHash(last.tree, last.before)

\* C7: when the cache file exists, decodes and stores the current repository
\* hash, sync_cache returns the loaded cache, parses, builds and stores
\* nothing, and leaves the cache file as it was.
C7_FreshPath ==
    (Synced /\ FreshBefore) =>
        /\ last.status = "Ok"
        /\ last.path = "fresh"
        /\ last.cache = LoadCache(last.before)
        /\ RebuildOps \cap Range(last.ops) = {}
        /\ last.disk = last.before
        /\ ~touched => disk = last.before

\* C7 witness: a call has just returned by the fresh path, from a JSON file.
C7_Witness ==
    /\ Synced /\ FreshBefore /\ ~touched
    /\ last.path = "fresh"
    /\ last.before.layout = "json"
    /\ Len(last.cache.files) > 0

C9_StaleReplaced ==
    (Synced /\ last.path = "stale") =>
        /\ last.status = "Ok"
        /\ \E o \in ParseRepo(last.tree, NoFile, "missing") : o.cache = last.cache
        /\ PersistedReturned

----------------------------------------------------------------------------
(* Claims about the cache build_cache returns.                              *)

Built == stage \in {"built", "stored", "loaded"} /\ cache.ok

\* The positions of the FileEntry records whose field contains x.
RecordsWith(field, x) ==
    {i \in 1..Len(cache.files) : \E k \in DOMAIN cache.files[i][field] :
                                     cache.files[i][field][k] = x}

\* The list names every record of the set I once and nothing else.
ExactlyPathsOf(list, I) ==
    /\ Len(list) = Cardinality(I)
    /\ {list[k] : k \in DOMAIN list} = {cache.files[i].path : i \in I}

\* C11: in every cache build_cache returns, owners_map[o] lists exactly the
\* paths of the FileEntry records whose owners contain o, for every key o,
\* and tags_map[t] exactly the paths of the records whose tags contain t.
C11_IndexConsistent ==
    Built =>
        /\ \A o \in DOMAIN cache.owners_map :
              ExactlyPathsOf(cache.owners_map[o], RecordsWith("owners", o))
        /\ \A t \in DOMAIN cache.tags_map :
              ExactlyPathsOf(cache.tags_map[t], RecordsWith("tags", t))

\* A built cache in which one owner owns some of the files and not others.
C11_Witness ==
    /\ Built
    /\ \E o \in DOMAIN cache.owners_map :
          /\ RecordsWith("owners", o) # {}
          /\ RecordsWith("owners", o) # 1..Len(cache.files)

----------------------------------------------------------------------------
(* SpecWrite: store_cache statement by statement, with the process able to  *)
(* stop between any two of them.                                            *)

\* What File::create leaves at the path: a file of length zero.
EmptyFile == [layout |-> "garbage", head |-> <<>>, body |-> <<>>]

\* What the file holds after BufWriter has written its buffer out k times
\* short of the whole: the leading bytes and the first k values.
FilePrefix(f, k) == [f EXCEPT !.body = SubSeq(f.body, 1, k)]

\* The caches store_cache is given.
WriteCaches ==
    {BuildCache(es, fs, MkHash(0, 0)) : es \in StoreEntryLists, fs \in StoreFileLists}

\* The complete cache files an earlier run can have left at the path.
EarlierFiles ==
    LET c == BuildCache(<<RootRule>>, <<<<"p", "m.rs">>>>, MkHash(255, 17))
    IN  {StoreCache(c, enc, oo, to) :
            enc \in {"Bincode", "Json"},
            oo \in KeyOrders(c.owners_map), to \in KeyOrders(c.tags_map)}

InitWrite ==
    /\ file_path = Root
    /\ entries = <<>>
    /\ called = ""
    /\ result = OkResult(<<>>, <<>>)
    /\ cache \in WriteCaches
    /\ encoding \in {"Bincode", "Json"}
    /\ disk \in {NoFile} \cup EarlierFiles
    /\ loaded = NoCache
    /\ stage = "idle"
    /\ SyncIdle
    /\ WriteIdle
    /\ LoadIdle
    /\ BuildIdle
    /\ ParseIdle

\* store_cache is entered; the maps will be serialized in some iteration order.
CallStoreCache ==
    /\ pc = "idle"
    /\ pc' = "called"
    /\ old' = disk
    /\ \E oo \in KeyOrders(cache.owners_map), to \in KeyOrders(cache.tags_map) :
          pending' = StoreCache(cache, encoding, oo, to)
    /\ UNCHANGED <<rvars, svars, yvars, lvars, bvars, pvars>>

\* std::fs::create_dir_all(parent)?
CreateDirAll ==
    /\ pc = "called"
    /\ pc' = "dir"
    /\ UNCHANGED <<rvars, svars, yvars, lvars, bvars, pvars, old, pending>>

\* std::fs::File::create(path)?  An existing file is truncated.
CreateFile ==
    /\ pc = "dir"
    /\ pc' = "created"
    /\ disk' = EmptyFile
    /\ UNCHANGED <<rvars, yvars, lvars, bvars, pvars, cache, encoding, loaded, stage, old, pending>>

\* The encoder fills BufWriter's buffer, which is written out when full.
SpillBuffer ==
    /\ pc = "created"
    /\ \E k \in 0..(Len(pending.body) - 1) :
          /\ disk # EmptyFile => k > Len(disk.body)
          /\ disk' = FilePrefix(pending, k)
    /\ UNCHANGED <<rvars, yvars, lvars, bvars, pvars, cache, encoding, loaded, stage, wvars>>

\* writer.flush()?; Ok(())
FlushAndReturn ==
    /\ pc = "created"
    /\ pc' = "done"
    /\ disk' = pending
    /\ UNCHANGED <<rvars, yvars, lvars, bvars, pvars, cache, encoding, loaded, stage, old, pending>>

\* A `?` returns an I/O error: of create_dir_all, File::create, a write of
\* the buffer or the flush.  Dropping the BufWriter then writes as much of
\* its buffer as the file still accepts.
IoError ==
    /\ pc \in {"called", "dir", "created"}
    /\ pc' = "failed"
    /\ IF pc = "created"
       THEN disk' \in {disk, pending} \cup
                      {FilePrefix(pending, k) : k \in Len(disk.body)..(Len(pending.body) - 1)}
       ELSE disk' = disk
    /\ UNCHANGED <<rvars, yvars, lvars, bvars, pvars, cache, encoding, loaded, stage, old, pending>>

\* The process stops before the flush has returned.
Crash ==
    /\ pc \in {"called", "dir", "created"}
    /\ pc' = "crashed"
    /\ UNCHANGED <<rvars, svars, yvars, lvars, bvars, pvars, old, pending>>

NextWrite ==
    \/ CallStoreCache
    \/ CreateDirAll
    \/ CreateFile
    \/ SpillBuffer
    \/ FlushAndReturn
    \/ IoError
    \/ Crash

SpecWrite == InitWrite /\ [][NextWrite]_vars

\* C12: when the process stops before store_cache's final flush has
\* returned, the cache path holds no file or the complete file it held
\* before the call, never an empty or half-written one.
C12_CrashSafe ==
    pc = "crashed" => (disk = NoFile \/ disk = old)

----------------------------------------------------------------------------
(* SpecLoad: load_cache on a file of any content, under any behaviour of    *)
(* the file system.                                                         *)

\* "ok": every call succeeds.  "open_fails": the first File::open fails.
\* "first_read_fails": read_exact of the first byte fails on a file that has
\* one.  "reopen_fails": the File::open before the first decoder fails.
\* "read_fails": every read a decoder makes fails.
IoOutcomes == {"ok", "open_fails", "first_read_fails", "reopen_fails", "read_fails"}

\* Mutant of LoadCacheSteps: the JSON fallback keeps the hash bytes the
\* failed bincode attempt had read.
LoadCacheStepsMixed(f, o) ==
    IF f.layout = "none" \/ o \in {"open_fails", "reopen_fails"}
    THEN [tried |-> <<>>, result |-> NoCache]
    ELSE LET sniffed == o # "first_read_fails" /\ Len(f.head) >= 1 /\ f.head[1] = JsonOpen
             json    == IF o = "read_fails" THEN NoCache ELSE DecodeJson(f)
             bin     == IF o = "read_fails" THEN NoCache ELSE DecodeBincode(f)
         IN  IF sniffed     THEN [tried |-> <<"json">>, result |-> json]
             ELSE IF bin.ok THEN [tried |-> <<"bincode">>, result |-> bin]
             ELSE [tried  |-> <<"bincode", "json">>,
                   result |-> IF json.ok
                              THEN [json EXCEPT !.hash = MkHash(f.head[1], 0)]
                              ELSE json]

\* Mutant of LoadCacheSteps: bincode is tried first on every file.
LoadCacheStepsNoSniff(f, o) ==
    IF f.layout = "none" \/ o \in {"open_fails", "reopen_fails"}
    THEN [tried |-> <<>>, result |-> NoCache]
    ELSE LET json == IF o = "read_fails" THEN NoCache ELSE DecodeJson(f)
             bin  == IF o = "read_fails" THEN NoCache ELSE DecodeBincode(f)
         IN  IF bin.ok THEN [tried |-> <<"bincode">>, result |-> bin]
             ELSE [tried |-> <<"bincode", "json">>, result |-> json]

\* load_cache with the decoders it ran: nothing runs when an open fails; a
\* first byte '{' that was read selects the JSON decoder alone; otherwise
\* bincode runs and JSON runs if bincode failed.
LoadCacheSteps(f, o) ==
    IF f.layout = "none" \/ o \in {"open_fails", "reopen_fails"}
    THEN [tried |-> <<>>, result |-> NoCache]
    ELSE LET sniffed == o # "first_read_fails" /\ Len(f.head) >= 1 /\ f.head[1] = JsonOpen
             json    == IF o = "read_fails" THEN NoCache ELSE DecodeJson(f)
             bin     == IF o = "read_fails" THEN NoCache ELSE DecodeBincode(f)
         IN  IF sniffed     THEN [tried |-> <<"json">>, result |-> json]
             ELSE IF bin.ok THEN [tried |-> <<"bincode">>, result |-> bin]
             ELSE [tried |-> <<"bincode", "json">>, result |-> json]

\* The caches whose files are loaded.
LoadCaches ==
    {BuildCache(es, <<<<"p", "m.rs">>, <<"p", "s", "r.md">>>>, h) :
        es \in StoreEntryLists, h \in Hashes}

CompleteFiles ==
    UNION {{StoreCache(c, enc, oo, to) :
              enc \in {"Bincode", "Json"},
              oo \in KeyOrders(c.owners_map), to \in KeyOrders(c.tags_map)} :
           c \in LoadCaches}

\* Complete files, files cut short, files followed by more bytes, JSON files
\* that open with a blank, files that are no cache, and no file.
LoadFiles ==
    CompleteFiles
    \cup {FilePrefix(f, k) : f \in CompleteFiles, k \in {0, 2}}
    \cup {[f EXCEPT !.body = @ \o <<"more">>] : f \in CompleteFiles}
    \cup {[f EXCEPT !.head = <<32, JsonOpen>>] : f \in {g \in CompleteFiles : g.layout = "json"}}
    \cup DamagedFiles
    \cup {NoFile}

InitLoad ==
    /\ file_path = Root
    /\ entries = <<>>
    /\ called = ""
    /\ result = OkResult(<<>>, <<>>)
    /\ cache = NoCache
    /\ encoding = "Bincode"
    /\ disk \in LoadFiles
    /\ loaded = NoCache
    /\ stage = "file"
    /\ SyncIdle
    /\ WriteIdle
    /\ LoadIdle
    /\ BuildIdle
    /\ ParseIdle

CallLoadCache ==
    /\ stage = "file"
    /\ \E o \in IoOutcomes :
          /\ io' = o
          /\ tried' = LoadCacheSteps(disk, o).tried
          /\ loaded' = LoadCacheSteps(disk, o).result
    /\ stage' = "returned"
    /\ UNCHANGED <<rvars, yvars, wvars, bvars, pvars, cache, encoding, disk>>

NextLoad == CallLoadCache

SpecLoad == InitLoad /\ [][NextLoad]_vars

Returned == stage = "returned"

\* What the decoder named d makes of the file.
DecodedBy(d) == IF d = "json" THEN DecodeJson(disk) ELSE DecodeBincode(disk)

Readable == Returned /\ io = "ok" /\ disk.layout # "none"

FirstByteIsBrace == Len(disk.head) >= 1 /\ disk.head[1] = JsonOpen

\* C14: on a readable file whose first byte is '{' load_cache runs the JSON
\* decoder alone and returns its result, success or error; on any other
\* file, an empty one included, it runs the bincode decoder first, returns
\* its result if it succeeded, and otherwise runs the JSON decoder and
\* returns that one's result.
C14_EncodingDetection ==
    Readable =>
        IF FirstByteIsBrace
        THEN tried = <<"json">> /\ loaded = DecodeJson(disk)
        ELSE IF DecodeBincode(disk).ok
        THEN tried = <<"bincode">> /\ loaded = DecodeBincode(disk)
        ELSE tried = <<"bincode", "json">> /\ loaded = DecodeJson(disk)

\* A JSON file that opens with a blank: bincode ran and failed, the JSON
\* decoder ran after it and its cache was returned.
C14_Witness ==
    /\ Readable
    /\ ~FirstByteIsBrace
    /\ disk.layout = "json"
    /\ ~DecodeBincode(disk).ok
    /\ tried = <<"bincode", "json">>
    /\ loaded.ok

----------------------------------------------------------------------------
(* Further claims about the resolvers.                                      *)

\* C15: for every entry list, the empty one included, resolving a path
\* without a parent directory returns an error and never Ok.
C15_NoParentIsError ==
    called # "" /\ ~HasParent(file_path) => ~result.ok

\* An entry the resolvers drop: its pattern does not compile or its
\* source_file has no parent directory.
BadEntry(e) == ~HasParent(e.source_file) \/ ~PatternCompiles(e.pattern)

\* The entry list without its bad entries.
WithoutBad(es) ==
    LET Good(e) == ~BadEntry(e)
    IN  SelectSeq(es, Good)

\* What the resolver named fn can return for a path and an entry list.
ResultsOf(fn, path, es) ==
    CASE fn = "find_owners_and_tags_for_file" -> FindOwnersAndTagsForFile(path, es)
      [] fn = "find_owners_for_file"          -> FindOwnersForFile(path, es)
      [] fn = "find_tags_for_file"            -> FindTagsForFile(path, es)
      [] fn = "common::find_owners_for_file"  -> CommonFindOwnersForFile(path, es)
      [] fn = "common::find_tags_for_file"    -> CommonFindTagsForFile(path, es)

\* C16: the result of a query is a result of the same query against the
\* entry list with the bad entries removed; bad entries change nothing and
\* cause no error.
C16_BadEntryIsolation ==
    called # "" => result \in ResultsOf(called, file_path, WithoutBad(entries))

\* C17: when at least one candidate matches, the owners and the tags that
\* find_owners_and_tags_for_file returns are, element for element and in
\* order, the owners and the tags of one and the same matching entry.
C17_SingleWinner ==
    called = "find_owners_and_tags_for_file" /\ HasParent(file_path) /\ MatchingIdx # {} =>
        /\ result.ok
        /\ \E i \in MatchingIdx :
              /\ result.owners = entries[i].owners
              /\ result.tags = entries[i].tags

\* Two entries match and the lists of one of them came back.
C17_Witness ==
    /\ called = "find_owners_and_tags_for_file"
    /\ HasParent(file_path)
    /\ Cardinality(MatchingIdx) = 2
    /\ result.ok
    /\ Len(result.owners) = 2
    /\ \E i \in MatchingIdx :
          result.owners = entries[i].owners /\ result.tags = entries[i].tags

----------------------------------------------------------------------------
(* SpecBuild: the parallel build_cache.  The file list is cut into chunks;  *)
(* a worker per chunk resolves the chunk's files in order; the workers run  *)
(* in any interleaving; collect() joins the chunks' records in chunk order. *)

\* par_chunks(100), scaled down to the file lists of the model.
ChunkSize == 2

Min(a, b) == IF a < b THEN a ELSE b

\* The number of chunks par_chunks cuts a list of n files into.
NumChunks(n) == (n + ChunkSize - 1) \div ChunkSize

\* Mutant of Chunk: a chunk runs one file into the next chunk.
ChunkOverlapping(fs, c) ==
    SubSeq(fs, (c - 1) * ChunkSize + 1, Min(c * ChunkSize + 1, Len(fs)))

\* The c-th chunk of the list.
Chunk(fs, c) ==
    SubSeq(fs, (c - 1) * ChunkSize + 1, Min(c * ChunkSize, Len(fs)))

\* The file lists the build is given: none, one file, a chunk and a half,
\* three chunks, a list that names a file twice, and a list with a path
\* that has no parent directory.
BuildFileLists ==
    {<<>>,
     <<<<"p", "m.rs">>>>,
     <<<<"p", "m.rs">>, <<"p", "s", "m.rs">>, <<"p", "s", "r.md">>>>,
     <<<<"p", "m.rs">>, <<"p", "s", "m.rs">>, <<"p", "s", "r.md">>,
       <<"p", "s", "a", "m.rs">>, <<"o", "m.rs">>>>,
     <<<<"p", "m.rs">>, <<"p", "s", "m.rs">>, <<"p", "m.rs">>>>,
     <<<<"p", "m.rs">>, <<"p", "s", "m.rs">>, Root>>}

InitBuild ==
    /\ file_path = Root
    /\ called = ""
    /\ result = OkResult(<<>>, <<>>)
    /\ entries \in StoreEntryLists
    /\ files \in BuildFileLists
    /\ chunkOut = [c \in 1..NumChunks(Len(files)) |-> <<>>]
    /\ processed_count = 0
    /\ printed = <<>>
    /\ cache = [ok |-> FALSE, hash |-> MkHash(0, 0)]
    /\ encoding = "Bincode"
    /\ disk = NoFile
    /\ loaded = NoCache
    /\ stage = "building"
    /\ SyncIdle
    /\ WriteIdle
    /\ LoadIdle
    /\ ParseIdle

\* The next file of chunk c, when its worker has not finished the chunk.
NextFileOf(c) == Chunk(files, c)[Len(chunkOut[c]) + 1]

\* Mutant of FetchAdd: every worker counts the files of its own chunk.
FetchAddOwnCount(c) == Len(chunkOut[c]) + 1

\* processed_count.fetch_add(1, Relaxed) by the worker of chunk c: one atomic
\* read-modify-write; the value the counter holds after it, which is the
\* worker's `current`.
FetchAdd(c) == processed_count + 1

\* Mutant of ProcessFile: the workers share the slot the path to resolve is
\* read from, so a worker resolves the path announced last by any worker.
ProcessFileSharedSlot(c) ==
    /\ stage = "building"
    /\ Len(chunkOut[c]) < Len(Chunk(files, c))
    /\ LET slot == IF printed = <<>> THEN NextFileOf(c) ELSE printed[Len(printed)].path
       IN  \E r \in FindOwnersAndTagsForFile(slot, entries) :
              /\ r.ok
              /\ chunkOut' = [chunkOut EXCEPT ![c] =
                                 Append(@, [path   |-> NextFileOf(c),
                                            owners |-> r.owners,
                                            tags   |-> r.tags])]
    /\ processed_count' = FetchAdd(c)
    /\ printed' = Append(printed, [current |-> FetchAdd(c),
                                   path    |-> NextFileOf(c)])
    /\ UNCHANGED <<rvars, svars, yvars, wvars, lvars, pvars, files>>

\* The worker of chunk c takes up its next file: counts it, announces it,
\* resolves it and adds the FileEntry to the chunk's records.
ProcessFile(c) ==
    /\ stage = "building"
    /\ Len(chunkOut[c]) < Len(Chunk(files, c))
    /\ \E r \in FindOwnersAndTagsForFile(NextFileOf(c), entries) :
          /\ r.ok
          /\ chunkOut' = [chunkOut EXCEPT ![c] =
                             Append(@, [path   |-> NextFileOf(c),
                                        owners |-> r.owners,
                                        tags   |-> r.tags])]
    /\ processed_count' = FetchAdd(c)
    /\ printed' = Append(printed, [current |-> FetchAdd(c),
                                   path    |-> NextFileOf(c)])
    /\ UNCHANGED <<rvars, svars, yvars, wvars, lvars, pvars, files>>

\* The resolver returned an error and unwrap() panics: no cache is returned.
PanicOnFile(c) ==
    /\ stage = "building"
    /\ Len(chunkOut[c]) < Len(Chunk(files, c))
    /\ \E r \in FindOwnersAndTagsForFile(NextFileOf(c), entries) : ~r.ok
    /\ stage' = "panicked"
    /\ processed_count' = FetchAdd(c)
    /\ printed' = Append(printed, [current |-> FetchAdd(c),
                                   path    |-> NextFileOf(c)])
    /\ UNCHANGED <<rvars, yvars, wvars, lvars, pvars, files, chunkOut,
                   cache, encoding, disk, loaded>>

\* Every worker is done: collect() joins the records, the two maps are
\* filled from them and the cache is returned.
CollectAndReturn ==
    /\ stage = "building"
    /\ \A c \in DOMAIN chunkOut : Len(chunkOut[c]) = Len(Chunk(files, c))
    /\ LET fe == Flatten(chunkOut)
       IN  cache' = [ok         |-> TRUE,
                     hash       |-> cache.hash,
                     entries    |-> entries,
                     files      |-> fe,
                     owners_map |-> [o \in CollectOwners(entries) |->
                                        PathsWhere(fe, "owners", o)],
                     tags_map   |-> [t \in CollectTags(entries) |->
                                        PathsWhere(fe, "tags", t)]]
    /\ stage' = "built"
    /\ UNCHANGED <<rvars, yvars, xvars, encoding, disk, loaded>>

NextBuild ==
    \/ \E c \in DOMAIN chunkOut : ProcessFile(c)
    \/ \E c \in DOMAIN chunkOut : PanicOnFile(c)
    \/ CollectAndReturn

SpecBuild == InitBuild /\ [][NextBuild]_vars

\* How often path p is named by the list of paths ps.
Occurrences(ps, p) == Cardinality({i \in DOMAIN ps : ps[i] = p})

\* C18: under every interleaving of the chunk workers the files list of the
\* cache the parallel build_cache returns is a permutation of the input
\* paths: every input path has as many FileEntry records as the input names
\* it, and there is no other record.
C18_OneRecordPerFile ==
    stage = "built" =>
        LET paths == [i \in DOMAIN cache.files |-> cache.files[i].path]
        IN  /\ Len(paths) = Len(files)
            /\ \A p \in Range(paths) \cup Range(files) :
                  Occurrences(paths, p) = Occurrences(files, p)

\* A cache built from three chunks whose workers did not run in input order.
C18_Witness ==
    /\ stage = "built"
    /\ Len(files) = 5
    /\ [k \in DOMAIN printed |-> printed[k].path] # files
    /\ Len(cache.files) = 5

----------------------------------------------------------------------------
(* The CODEOWNERS parser of core/common.rs.  A token is the sequence of its *)
(* characters; a line is the sequence of the tokens split_whitespace finds  *)
(* in it (none for a blank line); a file is the sequence of its lines.      *)

\* str::starts_with(ch)
StartsWithChar(tok, ch) == Len(tok) > 0 /\ tok[1] = ch

\* str::contains(ch)
ContainsChar(tok, ch) == \E i \in DOMAIN tok : tok[i] = ch

\* u8::to_ascii_uppercase on the letters in use.
ToAsciiUpper(ch) ==
    CASE ch = "n" -> "N"
      [] ch = "o" -> "O"
      [] ch = "w" -> "W"
      [] ch = "e" -> "E"
      [] ch = "r" -> "R"
      [] OTHER    -> ch

\* str::eq_ignore_ascii_case
EqIgnoreAsciiCase(a, b) ==
    /\ Len(a) = Len(b)
    /\ \A i \in DOMAIN a : ToAsciiUpper(a[i]) = ToAsciiUpper(b[i])

\* str::split(ch).collect(): the pieces between the separators, of which
\* there is one more than there are separators.
RECURSIVE Split(_, _)
Split(tok, ch) ==
    IF ~ContainsChar(tok, ch) THEN <<tok>>
    ELSE LET i == CHOOSE k \in DOMAIN tok :
                      tok[k] = ch /\ \A j \in 1..(k - 1) : tok[j] # ch
         IN  <<SubSeq(tok, 1, i - 1)>> \o Split(SubSeq(tok, i + 1, Len(tok)), ch)

NoOwnerWord == <<"N", "O", "O", "W", "N", "E", "R">>

\* Mutant of ParseOwner: any '/' after the '@' makes a team.
ParseOwnerAnySlash(owner_str) ==
    [ok         |-> TRUE,
     identifier |-> owner_str,
     owner_type |->
        IF EqIgnoreAsciiCase(owner_str, NoOwnerWord) THEN "Unowned"
        ELSE IF StartsWithChar(owner_str, "@")
             THEN IF Len(Split(Tail(owner_str), "/")) >= 2 THEN "Team" ELSE "User"
        ELSE IF ContainsChar(owner_str, "@") THEN "Email"
        ELSE "Unknown"]

\* parse_owner
ParseOwner(owner_str) ==
    [ok         |-> TRUE,
     identifier |-> owner_str,
     owner_type |->
        IF EqIgnoreAsciiCase(owner_str, NoOwnerWord) THEN "Unowned"
        ELSE IF StartsWithChar(owner_str, "@")
             THEN IF Len(Split(Tail(owner_str), "/")) = 2 THEN "Team" ELSE "User"
        ELSE IF ContainsChar(owner_str, "@") THEN "Email"
        ELSE "Unknown"]

\* The first loop of parse_line: owners from token i up to the first token
\* that starts with '#'.
RECURSIVE OwnersFrom(_, _)
OwnersFrom(tokens, i) ==
    IF i <= Len(tokens) /\ ~StartsWithChar(tokens[i], "#")
    THEN <<[identifier |-> ParseOwner(tokens[i]).identifier,
            owner_type |-> ParseOwner(tokens[i]).owner_type]>>
         \o OwnersFrom(tokens, i + 1)
    ELSE <<>>

\* The second loop of parse_line: tags from token i on; a lone "#", or a
\* '#' token followed by a token without '#', starts the comment.
RECURSIVE TagsFrom(_, _)
TagsFrom(tokens, i) ==
    IF i > Len(tokens) THEN <<>>
    ELSE IF ~StartsWithChar(tokens[i], "#") THEN <<>>
    ELSE IF tokens[i] = <<"#">> THEN <<>>
    ELSE IF i + 1 <= Len(tokens) /\ ~StartsWithChar(tokens[i + 1], "#") THEN <<>>
    ELSE <<Tail(tokens[i])>> \o TagsFrom(tokens, i + 1)

NoEntry == [some |-> FALSE]

\* parse_line: Ok(None) for a blank or comment line, else the entry.
ParseLine(line, line_num, source_path) ==
    IF line = <<>> \/ StartsWithChar(line[1], "#") THEN NoEntry
    ELSE LET owners == OwnersFrom(line, 2)
         IN  [some        |-> TRUE,
              source_file |-> source_path,
              line_number |-> line_num,
              pattern     |-> line[1],
              owners      |-> owners,
              tags        |-> TagsFrom(line, 2 + Len(owners))]

\* parse_codeowners on a file that was read: lines().enumerate() counts the
\* lines from zero, and the lines parse_line returns None for are dropped.
ParseCodeowners(lines, source_path) ==
    LET IsSome(x) == x.some
        all == [k \in 1..Len(lines) |-> ParseLine(lines[k], k - 1, source_path)]
    IN  [ok |-> TRUE, entries |-> SelectSeq(all, IsSome)]

----------------------------------------------------------------------------
(* SpecParse: parse_owner on a token, parse_codeowners on a file.           *)

MaxTokenLen == 4

MaxLines == 3

\* Every token of '@', '/' and a letter up to the length bound, and the
\* word NOOWNER in several spellings and with something around it.
OwnerTokens ==
    UNION {[1..n -> {"@", "/", "a"}] : n \in 0..MaxTokenLen}
    \cup {NoOwnerWord,
          <<"n", "o", "o", "w", "n", "e", "r">>,
          <<"N", "o", "O", "w", "n", "E", "r">>,
          <<"N", "O", "O", "W", "N", "E", "R", "a">>,
          <<"N", "O", "O", "W", "N", "E">>,
          <<"@", "N", "O", "O", "W", "N", "E", "R">>,
          <<"N", "O", "O", "W", "N", "E", "R", "@", "a">>}

\* The lines of a CODEOWNERS file: blank, a comment, a pattern alone, a rule
\* with an owner and a tag, and a rule with an owner and a trailing comment.
LineKinds ==
    {<<>>,
     <<<<"#">>, <<"a">>>>,
     <<<<"*">>>>,
     <<<<"*">>, <<"@", "a">>, <<"#", "t">>>>,
     <<<<"a">>, <<"@", "a", "/", "a">>, <<"#">>, <<"a">>>>}

SourceTexts == UNION {[1..n -> LineKinds] : n \in 0..MaxLines}

CodeownersPath == <<"p", "CODEOWNERS">>

InitParse ==
    /\ file_path = Root
    /\ entries = <<>>
    /\ called = ""
    /\ result = OkResult(<<>>, <<>>)
    /\ source \in {[kind |-> "token", text |-> t] : t \in OwnerTokens}
                 \cup {[kind |-> "file", lines |-> ls] : ls \in SourceTexts}
    /\ parsed = [ok |-> FALSE]
    /\ StoreIdle
    /\ SyncIdle
    /\ WriteIdle
    /\ LoadIdle
    /\ BuildIdle

CallParseOwner ==
    /\ called = ""
    /\ source.kind = "token"
    /\ called' = "parse_owner"
    /\ parsed' = ParseOwner(source.text)
    /\ UNCHANGED <<file_path, entries, result, svars, yvars, wvars, lvars, bvars, source>>

\* parse_codeowners: read_to_string fails, or the lines are parsed.
CallParseCodeowners ==
    /\ called = ""
    /\ source.kind = "file"
    /\ called' = "parse_codeowners"
    /\ \E readable \in BOOLEAN :
          parsed' = IF readable THEN ParseCodeowners(source.lines, CodeownersPath)
                    ELSE [ok |-> FALSE]
    /\ UNCHANGED <<file_path, entries, result, svars, yvars, wvars, lvars, bvars, source>>

NextParse ==
    \/ CallParseOwner
    \/ CallParseCodeowners

SpecParse == InitParse /\ [][NextParse]_vars

\* The kind the classification rules give a token, first rule first.
KindOf(tok) ==
    IF tok \in [1..7 -> {"N", "n", "O", "o", "W", "w", "E", "e", "R", "r"}]
       /\ <<tok[1], tok[2], tok[3], tok[4], tok[5], tok[6], tok[7]>> \in
              {"N", "n"} \X {"O", "o"} \X {"O", "o"} \X {"W", "w"} \X
              {"N", "n"} \X {"E", "e"} \X {"R", "r"}
    THEN "Unowned"
    ELSE IF Len(tok) >= 1 /\ tok[1] = "@"
            /\ Cardinality({i \in 2..Len(tok) : tok[i] = "/"}) = 1
    THEN "Team"
    ELSE IF Len(tok) >= 1 /\ tok[1] = "@" THEN "User"
    ELSE IF \E i \in 2..Len(tok) : tok[i] = "@" THEN "Email"
    ELSE "Unknown"

\* C19: parse_owner never fails, keeps the token verbatim as the identifier
\* and assigns the kind of the first rule that applies: NOOWNER in any case
\* is Unowned; '@' first with exactly one '/' after it is Team; '@' first
\* otherwise is User; '@' elsewhere is Email; anything else is Unknown.
C19_OwnerClassification ==
    called = "parse_owner" =>
        /\ parsed.ok
        /\ parsed.identifier = source.text
        /\ parsed.owner_type = KindOf(source.text)

\* A token with '@' first and two '/' after it was classified a User.
C19_Witness ==
    /\ called = "parse_owner"
    /\ source.text = <<"@", "/", "a", "/">>
    /\ parsed.owner_type = "User"

\* The line is one parse_line makes an entry of.
IsRuleLine(line) == line # <<>> /\ line[1][1] # "#"

\* C20: every entry parse_codeowners returns carries a line_number that is
\* at least 1 and is the 1-based position of the entry's line in the file.
C20_LineNumberOneBased ==
    called = "parse_codeowners" /\ parsed.ok =>
        \A j \in DOMAIN parsed.entries :
            LET n == parsed.entries[j].line_number
            IN  /\ n >= 1
                /\ n <= Len(source.lines)
                /\ IsRuleLine(source.lines[n])
                /\ Cardinality({k \in 1..n : IsRuleLine(source.lines[k])}) = j

----------------------------------------------------------------------------
(* Claims about the order of candidates.                                    *)

\* C21: among the matching candidates at the winner's depth the winner has
\* the greatest line number, also when they come from different source
\* files of one directory; source_file decides only between candidates of
\* equal depth and equal line number.
C21_EqualDepthLatestLine ==
    called # "" /\ HasParent(file_path) /\ MatchingIdx # {} =>
        \E i \in MatchingIdx :
            /\ TakenFrom(entries[i])
            /\ \A j \in MatchingIdx :
                  Distance(j) = Distance(i) =>
                      entries[j].line_number <= entries[i].line_number

----------------------------------------------------------------------------
(* Further claims about the parallel build.                                 *)

\* C22: a file whose resolution fails does not make build_cache panic or
\* abort; the build returns a cache with a record for every other file.
C22_FileErrorsAbsorbed ==
    /\ stage # "panicked"
    /\ stage = "built" =>
          \A k \in DOMAIN files :
              HasParent(files[k]) =>
                  \E i \in DOMAIN cache.files : cache.files[i].path = files[k]

----------------------------------------------------------------------------
\* The calls of sync_cache that went through parse_repo.
Rebuilt == Synced /\ last.path \in {"missing", "stale"}

FailedFiles(t) ==
    {k \in DOMAIN Trees[t].codeowners : ~Trees[t].codeowners[k].readable}

----------------------------------------------------------------------------
\* The (path, owners, tags) triples of a list of FileEntry records.
Triples(fe) == {<<fe[i].path, fe[i].owners, fe[i].tags>> : i \in DOMAIN fe}

----------------------------------------------------------------------------
\* The files the workers have taken up so far.
RECURSIVE SumLen(_)
SumLen(ss) == IF ss = <<>> THEN 0 ELSE Len(Head(ss)) + SumLen(Tail(ss))

AllWorkersDone ==
    \A c \in DOMAIN chunkOut : Len(chunkOut[c]) = Len(Chunk(files, c))

\* No increment is lost, the ordinals handed out are distinct and lie in
\* 1..N, and the counter is N once every worker has finished.
CounterExact ==
    /\ processed_count = Len(printed)
    /\ processed_count = SumLen(chunkOut) + (IF stage = "panicked" THEN 1 ELSE 0)
    /\ \A k \in DOMAIN printed : printed[k].current \in 1..Len(files)
    /\ \A j, k \in DOMAIN printed :
          j # k => printed[j].current # printed[k].current
    /\ AllWorkersDone => processed_count = Len(files)

\* A step of the worker of chunk c writes the records of chunk c and nothing
\* else but the counter and the progress line.
WorkerWritesOwn ==
    \A c \in DOMAIN chunkOut :
        chunkOut'[c] # chunkOut[c] =>
            /\ \A d \in DOMAIN chunkOut \ {c} : chunkOut'[d] = chunkOut[d]
            /\ processed_count' # processed_count
            /\ UNCHANGED <<entries, files, cache, stage>>

\* C25: during a parallel build the counter (with the progress line it
\* feeds) is the only state more than one worker writes; no increment is
\* lost, every file gets a distinct ordinal in 1..N from its fetch_add, and
\* the counter is N when all workers have finished.
C25_ProgressCounter == []CounterExact /\ [][WorkerWritesOwn]_vars

\* C25 witness: the workers of three chunks, interleaved, have all finished
\* and the counter stands at five.
C25_Witness ==
    /\ stage = "building" /\ AllWorkersDone
    /\ processed_count = 5
    /\ printed[2].path # files[2]

----------------------------------------------------------------------------
\* The owners or tags that occur in some FileEntry record of the cache.
OccurringIn(field) ==
    UNION {Range(cache.files[i][field]) : i \in DOMAIN cache.files}

\* C26: the reverse indices are derived from files alone: the keys of
\* owners_map are exactly the owners that occur in some FileEntry and the
\* keys of tags_map exactly the tags that do, each with the paths of the
\* records containing it.
C26_IndicesFromFiles ==
    Built =>
        /\ DOMAIN cache.owners_map = OccurringIn("owners")
        /\ DOMAIN cache.tags_map = OccurringIn("tags")
        /\ \A o \in OccurringIn("owners") :
              ExactlyPathsOf(cache.owners_map[o], RecordsWith("owners", o))
        /\ \A t \in OccurringIn("tags") :
              ExactlyPathsOf(cache.tags_map[t], RecordsWith("tags", t))

----------------------------------------------------------------------------
\* C27: whenever sync_cache returns Ok(cache), by the fresh path or by a
\* rebuild, and nothing else has modified the repository, cache.hash is the
\* content hash of the repository as it is at the return, the cache file the
\* call may have written included.
C27_NeverStaleOnReturn ==
    (Synced /\ ~touched /\ last.status = "Ok") =>
        last.cache.hash = GetRepoHash(last.tree, disk)

----------------------------------------------------------------------------
\* No two entries of the list share both source_file and line_number.
DistinctPlaces(es) ==
    \A i, j \in DOMAIN es :
        (es[i].source_file = es[j].source_file
            /\ es[i].line_number = es[j].line_number) => i = j

\* The rearrangements of the list.
PermutationsOf(es) ==
    LET D == DOMAIN es
    IN  {[i \in D |-> es[f[i]]] :
            f \in {g \in [D -> D] : \A j \in D : \E i \in D : g[i] = j}}

\* C28: for an entry list in which no two entries share both source_file
\* and line_number, find_owners_and_tags_for_file returns the same owners
\* and tags for every permutation of the list.
C28_OrderIndependent ==
    (called = "find_owners_and_tags_for_file" /\ DistinctPlaces(entries)) =>
        \A p \in PermutationsOf(entries) :
            FindOwnersAndTagsForFile(file_path, p) = {result}

\* C28 witness: of two matching entries at different places the second of
\* the list has won.
C28_Witness ==
    /\ called = "find_owners_and_tags_for_file"
    /\ DistinctPlaces(entries)
    /\ MatchingIdx = {1, 2}
    /\ result.ok
    /\ result.owners = entries[2].owners
    /\ result.owners # entries[1].owners

----------------------------------------------------------------------------
\* C29: after every successful return of sync_cache, by the fresh path or by
\* a rebuild, a cache file exists at the cache path and load_cache on it
\* yields a cache with the hash, entries, files and index maps of the cache
\* that was returned.
C29_PersistedEqualsReturned ==
    (Synced /\ last.status = "Ok") =>
        /\ last.disk # NoFile
        /\ LoadCache(last.disk).ok
        /\ SameCache(LoadCache(last.disk), last.cache)

----------------------------------------------------------------------------
(* SpecRepeat: sync_cache is called again and again on a repository that    *)
(* nothing else changes, whatever cache file earlier runs have left.        *)

\* The cache files a repository can start with: none, one that is no cache,
\* and the one codeowners_parse left when the work tree was t.
InitialCacheFiles ==
    {NoFile} \cup DamagedFiles
        \cup UNION {CodeownersParse(t, NoFile, enc) :
                       t \in 1..Len(Trees), enc \in {"Bincode", "Json"}}

InitRepeat ==
    /\ file_path = Root
    /\ entries = <<>>
    /\ called = ""
    /\ result = OkResult(<<>>, <<>>)
    /\ cache = NoCache
    /\ encoding = "Bincode"
    /\ loaded = NoCache
    /\ stage = "idle"
    /\ tree \in 1..Len(Trees)
    /\ cacheVisible \in BOOLEAN
    /\ cacheInDiff \in BOOLEAN
    /\ disk \in InitialCacheFiles
    /\ last = NoCall
    /\ prev = NoPrev
    /\ touched = FALSE
    /\ XIdle

\* The caller calls sync_cache and gets its result back.
CallSyncCache ==
    /\ stage = "idle"
    /\ SyncCall
    /\ stage' = "returned"

\* The caller goes round its loop to the next call.
CallAgain ==
    /\ stage = "returned"
    /\ stage' = "idle"
    /\ UNCHANGED <<rvars, yvars, xvars, cache, encoding, disk, loaded>>

NextRepeat == CallSyncCache \/ CallAgain

\* CallSyncCache as the caller's position shows it.  sync_cache returns on
\* every input, so the call can be made whenever the caller is idle.
EnterAndReturn == stage = "idle" /\ stage' = "returned"

\* The calls are repeated for ever: the caller always goes on to the next
\* call, and a call that is made returns.
SpecRepeat ==
    InitRepeat /\ [][NextRepeat]_vars /\ WF_stage(CallAgain) /\ WF_stage(EnterAndReturn)

\* C30: when nothing but sync_cache changes the repository and its calls
\* succeed, the calls reach one that takes the fresh path, and every call
\* after it takes the fresh path too.
C30_SyncConverges ==
    [](Synced => last.status = "Ok") => <>[](last.path = "fresh")

====
